---------------------------- MODULE Spec2Model ----------------------------
(***************************************************************************)
(* A model of server.js, the Nig Tax Calculator server: the request        *)
(* router, the static file responder and the configuration store.          *)
(*                                                                         *)
(* Text is modelled character by character.  A string is a sequence of     *)
(* one-character strings; the character U+00E9 is written "U+00E9" and the *)
(* replacement character "U+FFFD".  A request body on the wire is a        *)
(* sequence of bytes: an ASCII byte is written as its character, the two   *)
(* bytes of U+00E9 in UTF-8 are written "C3" and "A9".                     *)
(***************************************************************************)
EXTENDS Integers, Sequences, FiniteSets

(***************************************************************************)
(* Sequences                                                               *)
(***************************************************************************)
Range(s) == {s[k] : k \in DOMAIN s}

\* String.prototype.startsWith
StartsWith(s, p) == Len(s) >= Len(p) /\ SubSeq(s, 1, Len(p)) = p

\* The characters of s from position i to the end.
From(s, i) == SubSeq(s, i, Len(s))

RECURSIVE Spaces(_)
Spaces(n) == IF n <= 0 THEN <<>> ELSE <<" ">> \o Spaces(n - 1)

(***************************************************************************)
(* Buffer -> string.  `body += chunk` converts each chunk on its own with  *)
(* Buffer.prototype.toString('utf8'): a lead byte with its continuation    *)
(* byte in the same chunk is one character, a lead byte or a continuation  *)
(* byte on its own is U+FFFD.                                              *)
(***************************************************************************)
LeadBytes == {"C3"}
ContBytes == {"A9"}

RECURSIVE Utf8Decode(_)
Utf8Decode(bytes) ==
    IF bytes = <<>> THEN <<>>
    ELSE IF Head(bytes) \in LeadBytes
         THEN IF Len(bytes) >= 2 /\ bytes[2] \in ContBytes
              THEN <<"U+00E9">> \o Utf8Decode(From(bytes, 3))
              ELSE <<"U+FFFD">> \o Utf8Decode(Tail(bytes))
    ELSE IF Head(bytes) \in ContBytes
         THEN <<"U+FFFD">> \o Utf8Decode(Tail(bytes))
    ELSE <<Head(bytes)>> \o Utf8Decode(Tail(bytes))

(***************************************************************************)
(* JSON values.  A value is a tagged tuple:                                *)
(*   <<"null">>  <<"bool", b>>  <<"str", chars>>  <<"arr", <<v, ...>> >>   *)
(*   <<"obj", << <<key, v>>, ... >> >>   (own properties, in order)        *)
(*   <<"num", sign, mant, exp>>   sign * mant * 10^exp, mant without       *)
(*                                trailing zeros; <<"num", -1, 0, 0>> is   *)
(*                                the double -0                            *)
(*   <<"inf", sign>>              the doubles Infinity and -Infinity       *)
(***************************************************************************)
Digits == <<"0", "1", "2", "3", "4", "5", "6", "7", "8", "9">>
IsDigit(c) == c \in Range(Digits)
DigitVal(c) == (CHOOSE k \in 1..10 : Digits[k] = c) - 1
WhiteSpace == {" ", "\n", "\t", "\r"}

\* The largest decimal exponent of a finite double (1.7976931348623157e308):
\* a literal of a greater magnitude converts to Infinity.
DBL_MAX_10_EXP == 308
\* The decimal exponent of the smallest double (5e-324): a literal below it
\* converts to zero.
DBL_MIN_10_EXP == -324

RECURSIVE NumDigits(_)
NumDigits(n) == IF n < 10 THEN 1 ELSE 1 + NumDigits(n \div 10)

RECURSIVE Normalize(_, _, _)
Normalize(sign, mant, exp) ==
    IF mant = 0 THEN <<"num", sign, 0, 0>>
    ELSE IF mant % 10 = 0 THEN Normalize(sign, mant \div 10, exp + 1)
    ELSE <<"num", sign, mant, exp>>

\* The first two digits of a normalized mantissa, as a number 10..99.
LeadTwo(mant) ==
    IF mant < 10 THEN mant * 10
    ELSE LET RECURSIVE Cut(_)
             Cut(m) == IF m < 100 THEN m ELSE Cut(m \div 10)
         IN  Cut(mant)

\* String -> Number as JSON.parse does it (ieee), or the number the literal
\* denotes (exact, ~ieee).  Literals here carry too few digits to be rounded
\* in the finite range, so only overflow, underflow and -0 differ.
ToNumber(sign, mant, exp, ieee) ==
    LET n  == Normalize(sign, mant, exp)
        e10 == NumDigits(n[3]) + n[4] - 1
    IN  IF ~ieee THEN (IF n[3] = 0 THEN <<"num", 1, 0, 0>> ELSE n)
        ELSE IF n[3] = 0 THEN n
        ELSE IF e10 > DBL_MAX_10_EXP
                \/ (e10 = DBL_MAX_10_EXP /\ LeadTwo(n[3]) >= 18)
             THEN <<"inf", sign>>
        ELSE IF e10 < DBL_MIN_10_EXP THEN <<"num", sign, 0, 0>>
        ELSE n

(***************************************************************************)
(* JSON.parse: a recursive-descent reading of the ECMA-404 grammar.  Every *)
(* parser returns <<ok, value, next position>>.                            *)
(***************************************************************************)
Fail == <<FALSE, <<"null">>, 0>>

RECURSIVE SkipWs(_, _)
SkipWs(s, i) ==
    IF i <= Len(s) /\ s[i] \in WhiteSpace THEN SkipWs(s, i + 1) ELSE i

\* The digits from position i on: <<value, count, next position>>.
RECURSIVE ReadDigits(_, _, _, _)
ReadDigits(s, i, acc, n) ==
    IF i <= Len(s) /\ IsDigit(s[i])
    THEN ReadDigits(s, i + 1, acc * 10 + DigitVal(s[i]), n + 1)
    ELSE <<acc, n, i>>

\* number = [ - ] int [ frac ] [ exp ]
ParseNumber(s, i, ieee) ==
    LET neg  == s[i] = "-"
        sign == IF neg THEN -1 ELSE 1
        i1   == IF neg THEN i + 1 ELSE i
        int  == ReadDigits(s, i1, 0, 0)
        \* a leading zero ends the integer part
        intOk == int[2] >= 1 /\ (s[i1] = "0" => int[2] = 1)
        i2   == int[3]
        hasFrac == i2 <= Len(s) /\ s[i2] = "."
        frac == IF hasFrac THEN ReadDigits(s, i2 + 1, int[1], 0)
                ELSE <<int[1], 0, i2>>
        fracOk == hasFrac => frac[2] >= 1
        i3   == frac[3]
        hasExp == i3 <= Len(s) /\ s[i3] \in {"e", "E"}
        esgn == IF hasExp /\ i3 + 1 <= Len(s) /\ s[i3 + 1] = "-" THEN -1 ELSE 1
        i4   == IF hasExp /\ i3 + 1 <= Len(s) /\ s[i3 + 1] \in {"-", "+"}
                THEN i3 + 2 ELSE i3 + 1
        ex   == IF hasExp THEN ReadDigits(s, i4, 0, 0) ELSE <<0, 1, i3>>
        expOk == ex[2] >= 1
    IN  IF i1 <= Len(s) /\ intOk /\ fracOk /\ expOk
        THEN <<TRUE, ToNumber(sign, frac[1], esgn * ex[1] - frac[2], ieee), ex[3]>>
        ELSE Fail

\* The two-character escapes of the modelled alphabet.
Unescape(c) == CASE c = "\"" -> "\""
                 [] c = "\\" -> "\\"
                 [] c = "n"  -> "\n"
                 [] OTHER    -> ""

\* string = " chars ", read from the character after the opening quote.
RECURSIVE ReadString(_, _, _)
ReadString(s, i, acc) ==
    IF i > Len(s) THEN Fail
    ELSE IF s[i] = "\"" THEN <<TRUE, <<"str", acc>>, i + 1>>
    ELSE IF s[i] = "\\"
         THEN IF i + 1 <= Len(s) /\ Unescape(s[i + 1]) # ""
              THEN ReadString(s, i + 2, Append(acc, Unescape(s[i + 1])))
              ELSE Fail
    ELSE IF s[i] \in {"\n", "\t", "\r"} THEN Fail
    ELSE ReadString(s, i + 1, Append(acc, s[i]))

ParseLiteral(s, i, word, v) ==
    IF StartsWith(From(s, i), word) THEN <<TRUE, v, i + Len(word)>> ELSE Fail

\* [[DefineOwnProperty]] on the object under construction: a repeated key
\* keeps its place and takes the later value.
PutProp(props, k, v) ==
    IF \E j \in DOMAIN props : props[j][1] = k
    THEN [j \in DOMAIN props |-> IF props[j][1] = k THEN <<k, v>> ELSE props[j]]
    ELSE Append(props, <<k, v>>)

RECURSIVE ParseValue(_, _, _)
RECURSIVE ParseElements(_, _, _, _)
RECURSIVE ParseMembers(_, _, _, _)

ParseValue(s, i0, ieee) ==
    LET i == SkipWs(s, i0) IN
    IF i > Len(s) THEN Fail
    ELSE IF s[i] = "{" THEN
        (IF SkipWs(s, i + 1) <= Len(s) /\ s[SkipWs(s, i + 1)] = "}"
         THEN <<TRUE, <<"obj", <<>>>>, SkipWs(s, i + 1) + 1>>
         ELSE ParseMembers(s, i + 1, <<>>, ieee))
    ELSE IF s[i] = "[" THEN
        (IF SkipWs(s, i + 1) <= Len(s) /\ s[SkipWs(s, i + 1)] = "]"
         THEN <<TRUE, <<"arr", <<>>>>, SkipWs(s, i + 1) + 1>>
         ELSE ParseElements(s, i + 1, <<>>, ieee))
    ELSE IF s[i] = "\"" THEN ReadString(s, i + 1, <<>>)
    ELSE IF s[i] = "-" \/ IsDigit(s[i]) THEN ParseNumber(s, i, ieee)
    ELSE IF s[i] = "t" THEN ParseLiteral(s, i, <<"t", "r", "u", "e">>, <<"bool", TRUE>>)
    ELSE IF s[i] = "f" THEN ParseLiteral(s, i, <<"f", "a", "l", "s", "e">>, <<"bool", FALSE>>)
    ELSE IF s[i] = "n" THEN ParseLiteral(s, i, <<"n", "u", "l", "l">>, <<"null">>)
    ELSE Fail

\* elements = value { , value } ]
ParseElements(s, i, acc, ieee) ==
    LET r == ParseValue(s, i, ieee)
        j == SkipWs(s, r[3])
    IN  IF ~r[1] \/ j > Len(s) THEN Fail
        ELSE IF s[j] = "]" THEN <<TRUE, <<"arr", Append(acc, r[2])>>, j + 1>>
        ELSE IF s[j] = "," THEN ParseElements(s, j + 1, Append(acc, r[2]), ieee)
        ELSE Fail

\* members = string : value { , string : value } }
ParseMembers(s, i0, acc, ieee) ==
    LET i == SkipWs(s, i0)
        k == IF i <= Len(s) /\ s[i] = "\"" THEN ReadString(s, i + 1, <<>>) ELSE Fail
        c == SkipWs(s, k[3])
        r == IF k[1] /\ c <= Len(s) /\ s[c] = ":" THEN ParseValue(s, c + 1, ieee) ELSE Fail
        j == SkipWs(s, r[3])
    IN  IF ~r[1] \/ j > Len(s) THEN Fail
        ELSE IF s[j] = "}" THEN <<TRUE, <<"obj", PutProp(acc, k[2][2], r[2])>>, j + 1>>
        ELSE IF s[j] = "," THEN ParseMembers(s, j + 1, PutProp(acc, k[2][2], r[2]), ieee)
        ELSE Fail

\* A whole text: one value and nothing but white space after it.
\* <<ok, value>>; ok = FALSE is the SyntaxError.
ParseText(s, ieee) ==
    LET r == ParseValue(s, 1, ieee)
    IN  IF r[1] /\ SkipWs(s, r[3]) > Len(s) THEN <<TRUE, r[2]>> ELSE <<FALSE, <<"null">>>>

JSONparse(s) == ParseText(s, TRUE)


(***************************************************************************)
(* JSON.stringify(value, null, gap): gap = 2 for the configuration file,   *)
(* gap = 0 (no third argument) for a response body.                        *)
(***************************************************************************)
RECURSIVE DigitChars(_)
DigitChars(n) ==
    IF n < 10 THEN <<Digits[n + 1]>> ELSE Append(DigitChars(n \div 10), Digits[(n % 10) + 1])

RECURSIVE Zeros(_)
Zeros(n) == IF n <= 0 THEN <<>> ELSE <<"0">> \o Zeros(n - 1)

\* Number::toString of a finite double sign * mant * 10^exp.
NumberToString(sign, mant, exp) ==
    LET d == DigitChars(mant)
        k == Len(d)
        n == k + exp
        e == n - 1
        minus == IF sign < 0 THEN <<"-">> ELSE <<>>
        abs ==
            IF k <= n /\ n <= 21 THEN d \o Zeros(n - k)
            ELSE IF 0 < n /\ n <= 21 THEN SubSeq(d, 1, n) \o <<".">> \o SubSeq(d, n + 1, k)
            ELSE IF -6 < n /\ n <= 0 THEN <<"0", ".">> \o Zeros(-n) \o d
            ELSE (IF k = 1 THEN d ELSE <<d[1], ".">> \o Tail(d))
                 \o <<"e">> \o (IF e < 0 THEN <<"-">> \o DigitChars(-e)
                                ELSE <<"+">> \o DigitChars(e))
    IN  IF mant = 0 THEN <<"0">> ELSE minus \o abs

RECURSIVE EscapeChars(_)
EscapeChars(cs) ==
    IF cs = <<>> THEN <<>>
    ELSE (CASE Head(cs) = "\"" -> <<"\\", "\"">>
            [] Head(cs) = "\\" -> <<"\\", "\\">>
            [] Head(cs) = "\n" -> <<"\\", "n">>
            [] OTHER           -> <<Head(cs)>>) \o EscapeChars(Tail(cs))

QuoteJSONString(cs) == <<"\"">> \o EscapeChars(cs) \o <<"\"">>

RECURSIVE SerializeJSONProperty(_, _, _)
RECURSIVE SerializeItems(_, _, _, _)

\* The items of an array or the properties of an object, each on its own
\* indented line when gap > 0, separated by commas.
SerializeItems(kind, items, gap, indent) ==
    LET sep  == IF gap > 0 THEN <<",", "\n">> \o Spaces(indent) ELSE <<",">>
        item == IF kind = "arr" THEN SerializeJSONProperty(items[1], gap, indent)
                ELSE QuoteJSONString(items[1][1]) \o <<":">>
                     \o (IF gap > 0 THEN <<" ">> ELSE <<>>)
                     \o SerializeJSONProperty(items[1][2], gap, indent)
    IN  IF Len(items) = 1 THEN item
        ELSE item \o sep \o SerializeItems(kind, Tail(items), gap, indent)

SerializeJSONProperty(v, gap, indent) ==
    LET open  == IF v[1] = "arr" THEN <<"[">> ELSE <<"{">>
        close == IF v[1] = "arr" THEN <<"]">> ELSE <<"}">>
    IN  CASE v[1] = "null" -> <<"n", "u", "l", "l">>
          [] v[1] = "bool" -> IF v[2] THEN <<"t", "r", "u", "e">>
                              ELSE <<"f", "a", "l", "s", "e">>
          [] v[1] = "str"  -> QuoteJSONString(v[2])
          [] v[1] = "num"  -> NumberToString(v[2], v[3], v[4])
          \* a non-finite number is serialized as null
          [] v[1] = "inf"  -> <<"n", "u", "l", "l">>
          [] OTHER ->
               IF v[2] = <<>> THEN open \o close
               ELSE IF gap > 0
                    THEN open \o <<"\n">> \o Spaces(indent + gap)
                         \o SerializeItems(v[1], v[2], gap, indent + gap)
                         \o <<"\n">> \o Spaces(indent) \o close
               ELSE open \o SerializeItems(v[1], v[2], gap, indent) \o close

JSONstringify(v, gap) == SerializeJSONProperty(v, gap, 0)

(***************************************************************************)
(* Paths.  A path string is split at "/" into segments; an absolute path   *)
(* is the sequence of its segments.  The server is installed in /app.      *)
(***************************************************************************)
DIRNAME == << <<"a", "p", "p">> >>
PUBLIC_DIR == Append(DIRNAME, <<"p", "u", "b", "l", "i", "c">>)
CONFIG_FILE == Append(DIRNAME, <<"c", "o", "n", "f", "i", "g", ".", "j", "s", "o", "n">>)

IndexHtml == <<"i", "n", "d", "e", "x", ".", "h", "t", "m", "l">>
AppJs == <<"a", ".", "J", "S">>

\* String.prototype.split(sep) for a one-character separator.
RECURSIVE Split(_, _, _)
Split(s, sep, cur) ==
    IF s = <<>> THEN <<cur>>
    ELSE IF Head(s) = sep THEN <<cur>> \o Split(Tail(s), sep, <<>>)
    ELSE Split(Tail(s), sep, Append(cur, Head(s)))

\* path.normalize on the segments of an absolute path: "" and "." are
\* dropped, ".." removes the segment before it (none above the root).
RECURSIVE NormalizeSegments(_, _)
NormalizeSegments(segs, acc) ==
    IF segs = <<>> THEN acc
    ELSE IF Head(segs) \in {<<>>, <<".">>} THEN NormalizeSegments(Tail(segs), acc)
    ELSE IF Head(segs) = <<".", ".">>
         THEN NormalizeSegments(Tail(segs),
                                IF acc = <<>> THEN acc ELSE SubSeq(acc, 1, Len(acc) - 1))
    ELSE NormalizeSegments(Tail(segs), Append(acc, Head(segs)))

\* path.join(dir, p): dir + "/" + p, normalized.  <<segments, trailing "/">>;
\* path.normalize keeps a trailing separator.
PathJoin(dir, p) ==
    LET segs == dir \o Split(p, "/", <<>>)
    IN  <<NormalizeSegments(segs, <<>>), p # <<>> /\ p[Len(p)] = "/">>

\* String.prototype.toLowerCase on the letters of the modelled alphabet.
ToLowerCase(cs) ==
    [k \in DOMAIN cs |-> CASE cs[k] = "J" -> "j"
                           [] cs[k] = "S" -> "s"
                           [] OTHER       -> cs[k]]

\* path.extname: from the last "." of the last segment, "" when there is
\* none or when it is the segment's first character.
ExtName(segs) ==
    LET base == IF segs = <<>> THEN <<>> ELSE segs[Len(segs)]
        dots == {k \in DOMAIN base : base[k] = "."}
        last == CHOOSE k \in dots : \A j \in dots : j <= k
    IN  IF dots = {} \/ last = 1 THEN <<>> ELSE From(base, last)

getContentType(filePath) ==
    LET ext == ToLowerCase(ExtName(filePath))
    IN  CASE ext = <<".", "h", "t", "m", "l">> -> "text/html"
          [] ext = <<".", "c", "s", "s">>      -> "text/css"
          [] ext = <<".", "j", "s">>           -> "application/javascript"
          [] ext = <<".", "j", "s", "o", "n">> -> "application/json"
          [] ext = <<".", "p", "n", "g">>      -> "image/png"
          [] ext = <<".", "j", "p", "g">>      -> "image/jpeg"
          [] ext = <<".", "j", "p", "e", "g">> -> "image/jpeg"
          [] ext = <<".", "g", "i", "f">>      -> "image/gif"
          [] ext = <<".", "s", "v", "g">>      -> "image/svg+xml"
          [] ext = <<".", "i", "c", "o">>      -> "image/x-icon"
          [] OTHER                             -> "application/octet-stream"

(***************************************************************************)
(* Inputs: the methods, request targets and request bodies the clients     *)
(* send, and the states the file system starts in.                         *)
(***************************************************************************)
MaxInFlight == 2   \* requests being handled at once
MaxRequests == 3   \* requests received in one run

\* A 'data' event carries this many bytes of the body, or all that is left.
ChunkSizes == {2}

Conn == 1..MaxInFlight

Methods == {"GET", "POST", "OPTIONS", "PUT", "HEAD"}

U_config == <<"/", "c", "o", "n", "f", "i", "g">>
U_update == <<"/", "u", "p", "d", "a", "t", "e", "-", "c", "o", "n", "f", "i", "g">>
U_index == <<"/">> \o IndexHtml

\* req.url of the modelled requests, query string included.
Urls == {
    <<"/">>,
    <<"?", "x">>,
    <<"/", "?", "x">>,
    U_index,
    <<"/">> \o AppJs,
    <<"/", "n", "o", "p", "e">>,
    U_index \o <<"/">>,
    <<"/", ".", ".", "/", "c", "o", "n", "f", "i", "g", ".", "j", "s", "o", "n">>,
    U_config,
    U_config \o <<"?", "x">>,
    U_config \o <<"s">>,
    U_update,
    U_update \o <<"?", "x">> }

\* Request bodies as sent, byte by byte.
Bodies == <<
    <<"{", "\"", "a", "\"", ":", "1", "}">>,          \* {"a":1}
    <<"{", "\"", "b", "\"", ":", "[", "7", ".", "5", "]", "}">>,   \* {"b":[7.5]}
    <<"\"", "C3", "A9", "\"">>,                       \* "e-acute"
    <<"1", "e", "4", "0", "0">>,                      \* 1e400
    <<"{", "\"", "a", "\"", ":">>,                    \* {"a":   (cut short)
    <<>> >>                                           \* empty

BodyIds == DOMAIN Bodies

\* The configuration file: whether it exists, its text, and whether the
\* process may open it for reading (r) and for writing (w).
File(data, r, w) == [exists |-> TRUE, data |-> data, r |-> r, w |-> w]
Absent == [exists |-> FALSE, data |-> <<>>, r |-> TRUE, w |-> TRUE]

CfgInits == {
    Absent,
    File(<<"{", "\"", "a", "\"", ":", " ", "1", "}">>, TRUE, TRUE),
    File(<<"{", "\"", "a", "\"", ":", " ", "1", "}">>, FALSE, TRUE),
    File(<<"{", "\"", "a", "\"", ":", " ", "1", "}">>, TRUE, FALSE),
    File(<<"{", "\"", "a", "\"">>, TRUE, TRUE),
    File(<<"[", "1", "e", "4", "0", "0", "]">>, TRUE, TRUE) }

\* The files of the public directory, by name.
PubInits == { {IndexHtml, AppJs}, {AppJs} }

PubContent(name) ==
    IF name = IndexHtml THEN <<"<", "h", "1", ">">> ELSE <<"/", "/">>

(***************************************************************************)
(* State                                                                   *)
(***************************************************************************)
VARIABLES
    cfg,        \* the configuration file, config.json
    pub,        \* the names of the files in the public directory
    conns,      \* per connection: the request being handled, if any
    out,        \* the response written last
    cfg0,       \* history: the configuration file at start
    ended,      \* history: the updates whose 'end' event was handled
    lastEnd,    \* history: the update whose 'end' event was handled last
    lastValid,  \* history: the last such update with a well-formed body
    nreq        \* history: the number of requests received

vars == <<cfg, pub, conns, out, cfg0, ended, lastEnd, lastValid, nreq>>

Idle == [st |-> "idle", method |-> "", url |-> <<>>, bid |-> 0, sent |-> 0,
         body |-> <<>>, path |-> <<>>, trail |-> FALSE]

\* by: the branch that wrote the response; io: what its handler did to the
\* configuration file; bid: the body of the request, for an update.
NoResponse == [method |-> "", url |-> <<>>, bid |-> 0, by |-> "",
               status |-> 0, headers |-> {}, body |-> <<>>, io |-> {}]

InitWith(cfgs, pubs) ==
    /\ cfg \in cfgs
    /\ pub \in pubs
    /\ conns = [c \in Conn |-> Idle]
    /\ out = NoResponse
    /\ cfg0 = cfg
    /\ ended = {}
    /\ lastEnd = 0
    /\ lastValid = 0
    /\ nreq = 0

(***************************************************************************)
(* The configuration store                                                 *)
(***************************************************************************)
EmptyObject == <<"obj", <<>>>>

\* fs.readFileSync(CONFIG_FILE, 'utf8'): <<ok, text>>; ok = FALSE is the throw.
readFileSync(f) == IF f.exists /\ f.r THEN <<TRUE, f.data>> ELSE <<FALSE, <<>>>>

\* readConfig with a catch block that returns nothing.
readConfigNoFallback(f) ==
    LET raw == readFileSync(f)
    IN  IF raw[1] /\ JSONparse(raw[2])[1] THEN JSONparse(raw[2])[2] ELSE <<"null">>

readConfig(f) ==
    LET raw == readFileSync(f)
    IN  IF raw[1] /\ JSONparse(raw[2])[1] THEN JSONparse(raw[2])[2] ELSE EmptyObject

\* fs.writeFileSync(CONFIG_FILE, text, 'utf8'): <<ok, the file after it>>.
\* The file is created when absent; a file the process may not open for
\* writing makes the call throw and is left as it was.
writeFileSync(f, text) ==
    IF ~f.exists THEN <<TRUE, File(text, TRUE, TRUE)>>
    ELSE IF f.w THEN <<TRUE, [f EXCEPT !.data = text]>>
    ELSE <<FALSE, f>>

writeConfig(f, data) == writeFileSync(f, JSONstringify(data, 2))

(***************************************************************************)
(* The static file responder                                               *)
(***************************************************************************)
InDir(dir, path) == Len(path) > Len(dir) /\ SubSeq(path, 1, Len(dir)) = dir

\* fs.readFile(fullPath): <<ok, bytes>>; ok = FALSE is any error (ENOENT,
\* EISDIR, ENOTDIR, EACCES).
readFile(path, trail, f, files) ==
    IF trail THEN <<FALSE, <<>>>>
    ELSE IF path = CONFIG_FILE THEN readFileSync(f)
    ELSE IF InDir(PUBLIC_DIR, path) /\ Len(path) = Len(PUBLIC_DIR) + 1
            /\ path[Len(path)] \in files
         THEN <<TRUE, PubContent(path[Len(path)])>>
    ELSE <<FALSE, <<>>>>

NotFoundText == <<"4", "0", "4", " ", "N", "o", "t", " ", "F", "o", "u", "n", "d">>
NotAllowedText == <<"M", "e", "t", "h", "o", "d", " ", "N", "o", "t", " ",
                    "A", "l", "l", "o", "w", "e", "d">>

ContentType(t) == {<<"Content-Type", t>>}

(***************************************************************************)
(* The router                                                              *)
(***************************************************************************)
\* req.url.split('?')[0]
StripQuery(requrl) == Split(requrl, "?", <<>>)[1]

\* The API paths matched as a whole, not as a prefix.
IsApiExact(url) == url = U_config \/ url = U_update

IsApi(url) == StartsWith(url, U_config) \/ StartsWith(url, U_update)

\* The headers set with res.setHeader before the method is looked at.
CorsHeaders(url) ==
    IF IsApi(url)
    THEN { <<"Access-Control-Allow-Origin", "*">>,
           <<"Access-Control-Allow-Methods", "GET, POST, OPTIONS">>,
           <<"Access-Control-Allow-Headers", "Content-Type">> }
    ELSE {}

\* Route without the path test of the POST branch.
RouteAnyPost(method, url) ==
    IF IsApi(url) /\ method = "OPTIONS" THEN "preflight"
    ELSE IF method = "GET" THEN (IF url = U_config THEN "config" ELSE "static")
    ELSE IF method = "POST" THEN "update"
    ELSE "405"

\* The branch of the request listener a request takes.
Route(method, url) ==
    IF IsApi(url) /\ method = "OPTIONS" THEN "preflight"
    ELSE IF method = "GET" THEN (IF url = U_config THEN "config" ELSE "static")
    ELSE IF method = "POST" /\ url = U_update THEN "update"
    ELSE "405"

\* The path handed to serveStatic.
StaticPath(url) == IF url = <<"/">> \/ url = <<>> THEN U_index ELSE url

Response(by, method, requrl, bid, status, headers, body, io) ==
    [method |-> method, url |-> requrl, bid |-> bid, by |-> by,
     status |-> status, headers |-> CorsHeaders(StripQuery(requrl)) \cup headers,
     body |-> body, io |-> io]

(***************************************************************************)
(* The request listener.  A request arrives on an idle connection; the     *)
(* listener runs to completion, and for a static file or an update leaves  *)
(* a callback to run later.                                                *)
(***************************************************************************)
History == <<cfg0, ended, lastEnd, lastValid>>

\* One more request is received.
Received == nreq < MaxRequests /\ nreq' = nreq + 1

\* OPTIONS on an API path: 204, no body.
Preflight(c, method, requrl) ==
    /\ conns[c].st = "idle"
    /\ Received
    /\ Route(method, StripQuery(requrl)) = "preflight"
    /\ out' = Response("preflight", method, requrl, 0, 204, {}, <<>>, {})
    /\ UNCHANGED <<cfg, pub, conns, History>>

\* GET /config
GetConfig(c, method, requrl) ==
    /\ conns[c].st = "idle"
    /\ Received
    /\ Route(method, StripQuery(requrl)) = "config"
    /\ out' = Response("config", method, requrl, 0, 200,
                       ContentType("application/json"),
                       JSONstringify(readConfig(cfg), 0), {"read"})
    /\ UNCHANGED <<cfg, pub, conns, History>>

\* GET of any other path: serveStatic starts fs.readFile.
GetStatic(c, method, requrl) ==
    LET full == PathJoin(PUBLIC_DIR, StaticPath(StripQuery(requrl)))
    IN  /\ conns[c].st = "idle"
        /\ Received
        /\ Route(method, StripQuery(requrl)) = "static"
        /\ conns' = [conns EXCEPT ![c] = [Idle EXCEPT !.st = "read", !.method = method,
                                          !.url = requrl, !.path = full[1],
                                          !.trail = full[2]]]
        /\ UNCHANGED <<cfg, pub, out, History>>

\* What the callback of fs.readFile answers: <<status, content type, body>>.
serveStatic(path, trail, f, files) ==
    LET rd == readFile(path, trail, f, files)
    IN  IF rd[1] THEN <<200, getContentType(path), rd[2]>>
        ELSE <<404, "text/plain", NotFoundText>>

\* The callback of fs.readFile.
ReadFileDone(c) ==
    LET r   == conns[c]
        ans == serveStatic(r.path, r.trail, cfg, pub)
    IN  /\ r.st = "read"
        /\ out' = Response("static", r.method, r.url, 0, ans[1],
                           ContentType(ans[2]), ans[3], {})
        /\ conns' = [conns EXCEPT ![c] = Idle]
        /\ UNCHANGED <<cfg, pub, History, nreq>>

\* POST /update-config: body = '', and the two listeners are registered.
PostUpdate(c, method, requrl, b) ==
    /\ conns[c].st = "idle"
    /\ Received
    /\ Route(method, StripQuery(requrl)) = "update"
    /\ conns' = [conns EXCEPT ![c] = [Idle EXCEPT !.st = "recv", !.method = method,
                                      !.url = requrl, !.bid = b]]
    /\ UNCHANGED <<cfg, pub, out, History>>

\* The bytes of the body of connection c's request still to arrive.
Remaining(c) ==
    IF conns[c].st = "recv" THEN Len(Bodies[conns[c].bid]) - conns[c].sent ELSE 0

\* req.on('data'): the next k bytes of the body arrive; body += chunk.
Data(c, k) ==
    LET r   == conns[c]
        raw == Bodies[r.bid]
    IN  /\ r.st = "recv"
        /\ k >= 1 /\ r.sent + k <= Len(raw)
        /\ k \in ChunkSizes \/ r.sent + k = Len(raw)
        /\ conns' = [conns EXCEPT ![c].sent = r.sent + k,
                                  ![c].body = r.body \o
                                      Utf8Decode(SubSeq(raw, r.sent + 1, r.sent + k))]
        /\ UNCHANGED <<cfg, pub, out, History, nreq>>

\* The text a client means by the bytes of a body, and whether that text is
\* well-formed JSON (read exactly, not through doubles).
BodyText(b) == Utf8Decode(Bodies[b])
WellFormed(text) == ParseText(text, FALSE)[1]

\* JSON.stringify({ status: 'success' })
SuccessBody ==
    JSONstringify(<<"obj", << << <<"s", "t", "a", "t", "u", "s">>,
                                 <<"str", <<"s", "u", "c", "c", "e", "s", "s">>>> >> >> >>, 0)

\* JSON.stringify({ status: 'error', message: 'Invalid JSON' })
InvalidJsonBody ==
    JSONstringify(<<"obj", <<
        << <<"s", "t", "a", "t", "u", "s">>, <<"str", <<"e", "r", "r", "o", "r">>>> >>,
        << <<"m", "e", "s", "s", "a", "g", "e">>,
           <<"str", <<"I", "n", "v", "a", "l", "i", "d", " ", "J", "S", "O", "N">>>> >> >> >>, 0)

\* The 'end' listener storing the body as received before it parses it.
UpdateConfigStoreFirst(f, body) ==
    LET p == JSONparse(body)
        w == writeFileSync(f, body)
    IN  IF p[1] /\ w[1] THEN <<200, SuccessBody, w[2]>> ELSE <<400, InvalidJsonBody, w[2]>>

\* The 'end' listener: <<response status, response body, the configuration
\* file after it>>.  A throw of JSON.parse or of writeConfig is caught alike.
UpdateConfig(f, body) ==
    LET p == JSONparse(body)
        w == writeConfig(f, p[2])
    IN  IF p[1] /\ w[1] THEN <<200, SuccessBody, w[2]>> ELSE <<400, InvalidJsonBody, f>>

\* req.on('end'): the whole body has arrived.
End(c) ==
    LET r == conns[c]
        u == UpdateConfig(cfg, r.body)
    IN  /\ r.st = "recv"
        /\ r.sent = Len(Bodies[r.bid])
        /\ cfg' = u[3]
        /\ out' = Response("update", r.method, r.url, r.bid, u[1],
                           ContentType("application/json"), u[2],
                           IF JSONparse(r.body)[1] THEN {"write"} ELSE {})
        /\ conns' = [conns EXCEPT ![c] = Idle]
        /\ ended' = ended \cup {r.bid}
        /\ lastEnd' = r.bid
        /\ lastValid' = IF WellFormed(BodyText(r.bid)) THEN r.bid ELSE lastValid
        /\ UNCHANGED <<pub, cfg0, nreq>>

\* Anything else: 405.
MethodNotAllowed(c, method, requrl) ==
    /\ conns[c].st = "idle"
    /\ Received
    /\ Route(method, StripQuery(requrl)) = "405"
    /\ out' = Response("405", method, requrl, 0, 405,
                       ContentType("text/plain"), NotAllowedText, {})
    /\ UNCHANGED <<cfg, pub, conns, History>>

(***************************************************************************)
(* What the properties speak of                                            *)
(***************************************************************************)
\* Deep equality of two JSON values: arrays element by element, objects
\* key by key whatever the order of the keys.
RECURSIVE DeepEqual(_, _)
DeepEqual(v, w) ==
    IF v[1] # w[1] THEN FALSE
    ELSE IF v[1] = "arr"
         THEN Len(v[2]) = Len(w[2])
              /\ \A k \in DOMAIN v[2] : DeepEqual(v[2][k], w[2][k])
    ELSE IF v[1] = "obj"
         THEN {m[1] : m \in Range(v[2])} = {m[1] : m \in Range(w[2])}
              /\ \A i \in DOMAIN v[2] : \A j \in DOMAIN w[2] :
                     v[2][i][1] = w[2][j][1] => DeepEqual(v[2][i][2], w[2][j][2])
    ELSE v = w

\* The JSON value a text denotes, numbers read exactly.
Denotes(text) == ParseText(text, FALSE)[2]

\* Two texts are well-formed JSON and denote deep-equal values.
SameJSON(t1, t2) ==
    WellFormed(t1) /\ WellFormed(t2) /\ DeepEqual(Denotes(t1), Denotes(t2))

\* A text is well-formed JSON and denotes the value v.
DenotesValue(t, v) == WellFormed(t) /\ DeepEqual(Denotes(t), v)

\* A double as the number it is: -0 is 0.
RECURSIVE AsExact(_)
AsExact(v) ==
    IF v[1] = "num" /\ v[3] = 0 THEN <<"num", 1, 0, 0>>
    ELSE IF v[1] = "arr" THEN <<"arr", [k \in DOMAIN v[2] |-> AsExact(v[2][k])]>>
    ELSE IF v[1] = "obj"
         THEN <<"obj", [k \in DOMAIN v[2] |-> <<v[2][k][1], AsExact(v[2][k][2])>>]>>
    ELSE v

\* Every number of a well-formed text converts to a double of the same value:
\* none overflows to Infinity, none underflows to zero.
InDoubleRange(text) ==
    WellFormed(text) /\ DeepEqual(AsExact(JSONparse(text)[2]), Denotes(text))

Path(o) == StripQuery(o.url)
Answered(o) == o.status # 0
IsGetConfig(o) == Answered(o) /\ o.method = "GET" /\ Path(o) = U_config
IsUpdate(o) == Answered(o) /\ o.method = "POST" /\ Path(o) = U_update
HasType(o, t) == <<"Content-Type", t>> \in o.headers
    /\ \A h \in o.headers : h[1] = "Content-Type" => h[2] = t

Str(cs) == <<"str", cs>>
SuccessValue == <<"obj", << << <<"s", "t", "a", "t", "u", "s">>,
                              Str(<<"s", "u", "c", "c", "e", "s", "s">>) >> >> >>
InvalidJsonValue ==
    <<"obj", << << <<"m", "e", "s", "s", "a", "g", "e">>,
                   Str(<<"I", "n", "v", "a", "l", "i", "d", " ", "J", "S", "O", "N">>) >>,
                << <<"s", "t", "a", "t", "u", "s">>, Str(<<"e", "r", "r", "o", "r">>) >> >> >>

\* The configuration file holds readable, well-formed JSON.
Valid(f) == f.exists /\ f.r /\ WellFormed(f.data)

(***************************************************************************)
(* Specifications                                                          *)
(***************************************************************************)
\* The configuration API: clients read and update the configuration, any
\* number of them at once, with bodies arriving in chunks.
Init == InitWith(CfgInits, {{IndexHtml, AppJs}})

ApiUrls == {U_config, U_update}

NextApi(bodies) ==
    \/ \E c \in Conn, u \in ApiUrls : GetConfig(c, "GET", u)
    \/ \E c \in Conn, u \in ApiUrls, b \in bodies : PostUpdate(c, "POST", u, b)
    \/ \E c \in Conn : \E k \in ChunkSizes \cup {Remaining(c)} : Data(c, k)
    \/ \E c \in Conn : End(c)

Next == NextApi(BodyIds)

Spec == Init /\ [][Next]_vars

\* The configuration API where nothing is out of the ordinary: the file is
\* absent or readable, writable and well-formed, and no number in a body or
\* in the file is beyond the range of a double.
BenignCfgInits == {f \in CfgInits : ~f.exists \/ (f.r /\ f.w /\ InDoubleRange(f.data))}
BenignBodies == {b \in BodyIds : WellFormed(BodyText(b)) => InDoubleRange(BodyText(b))}

InitBenign == InitWith(BenignCfgInits, {{IndexHtml, AppJs}})

NextBenign == NextApi(BenignBodies)

SpecBenign == InitBenign /\ [][NextBenign]_vars

\* The router: every method on every request target, one update body.
InitRouter == InitWith(CfgInits, PubInits)

\* The router is driven one request at a time.
RouterConn == {1}
RouterBodies == {2}

NextRouter ==
    \/ \E c \in RouterConn, m \in Methods, u \in Urls : Preflight(c, m, u)
    \/ \E c \in RouterConn, m \in Methods, u \in Urls : GetConfig(c, m, u)
    \/ \E c \in RouterConn, m \in Methods, u \in Urls : GetStatic(c, m, u)
    \/ \E c \in RouterConn : ReadFileDone(c)
    \/ \E c \in RouterConn, m \in Methods, u \in Urls, b \in RouterBodies :
           PostUpdate(c, m, u, b)
    \/ \E c \in RouterConn : \E k \in ChunkSizes \cup {Remaining(c)} : Data(c, k)
    \/ \E c \in RouterConn : End(c)
    \/ \E c \in RouterConn, m \in Methods, u \in Urls : MethodNotAllowed(c, m, u)

SpecRouter == InitRouter /\ [][NextRouter]_vars

(***************************************************************************)
(* Properties                                                              *)
(***************************************************************************)
\* C1: a GET /config answered after an update with a well-formed body V,
\* no other update handled in between, returns 200 and a value deep-equal
\* to V.
C1_RoundTrip ==
    (IsGetConfig(out) /\ lastEnd # 0 /\ WellFormed(BodyText(lastEnd)))
        => (out.status = 200 /\ SameJSON(out.body, BodyText(lastEnd)))

\* C2: an update whose body is not well-formed JSON is answered 400 with
\* {status: "error", message: "Invalid JSON"}, and the configuration file
\* after the request is the configuration file before it.
C2_MalformedBodySafe ==
    [][\A c \in Conn :
          (conns[c].st = "recv" /\ conns'[c].st = "idle"
           /\ ~WellFormed(BodyText(conns[c].bid)))
          => (/\ cfg' = cfg
              /\ IsUpdate(out') /\ out'.bid = conns[c].bid
              /\ out'.status = 400
              /\ HasType(out', "application/json")
              /\ DenotesValue(out'.body, InvalidJsonValue))]_vars

C2_Witness ==
    /\ IsUpdate(out) /\ out.status = 400 /\ ~WellFormed(BodyText(out.bid))
    /\ Valid(cfg) /\ lastValid # 0

\* C3 as stated: GET /config answers 200 application/json in every state of
\* the configuration file; the body is the file's value when the file holds
\* well-formed JSON, and {} otherwise.
C3_AsStated ==
    IsGetConfig(out)
        => (/\ out.status = 200
            /\ HasType(out, "application/json")
            /\ IF Valid(cfg) THEN SameJSON(out.body, cfg.data)
               ELSE DenotesValue(out.body, EmptyObject))

\* C3 as amended: GET /config answers 200 application/json in every state of
\* the configuration file; the body is {} when the file is absent, unreadable
\* or malformed, it is well-formed JSON when the file is, and it is the file's
\* value when every number in the file converts to a double of the same value.
C3_GetConfigNeverFails ==
    IsGetConfig(out)
        => (/\ out.status = 200
            /\ HasType(out, "application/json")
            /\ WellFormed(out.body)
            /\ ~Valid(cfg) => DenotesValue(out.body, EmptyObject)
            /\ (Valid(cfg) /\ InDoubleRange(cfg.data)) => SameJSON(out.body, cfg.data))

C3_Witness ==
    /\ IsGetConfig(out) /\ out.status = 200
    /\ cfg.exists /\ ~cfg.r /\ WellFormed(cfg.data)
    /\ ~DenotesValue(cfg.data, EmptyObject)
    /\ DenotesValue(out.body, EmptyObject)

\* C4: every update whose body is well-formed JSON is answered 200 with
\* {status: "success"}, and 400 is answered only when the body does not parse.
C4_WellFormedAccepted ==
    IsUpdate(out)
        => (/\ WellFormed(BodyText(out.bid))
                => (out.status = 200 /\ DenotesValue(out.body, SuccessValue))
            /\ out.status = 400 => ~WellFormed(BodyText(out.bid)))

\* The requests the router has no handler for: not a GET, not a POST to
\* exactly /update-config, not an OPTIONS on an API path.
Unsupported(method, requrl) ==
    /\ method # "GET"
    /\ ~(method = "POST" /\ StripQuery(requrl) = U_update)
    /\ ~(method = "OPTIONS" /\ (StartsWith(StripQuery(requrl), U_config)
                                \/ StartsWith(StripQuery(requrl), U_update)))

\* C5: every request that is not a GET, not a POST to exactly /update-config
\* and not an OPTIONS on an API path (so every PUT) is answered 405 with a
\* plain-text body, and no handler is left waiting for its body or a file.
C5_MethodGuard ==
    /\ (Answered(out) /\ Unsupported(out.method, out.url))
           => (/\ out.status = 405
               /\ HasType(out, "text/plain")
               /\ out.body = NotAllowedText
               /\ out.io = {})
    /\ \A c \in Conn :
           conns[c].st # "idle" => ~Unsupported(conns[c].method, conns[c].url)

C5_Witness ==
    /\ out.method = "PUT" /\ Path(out) = U_update /\ out.status = 405
    /\ nreq = MaxRequests

\* C6: every OPTIONS request on a path starting with /config or
\* /update-config is answered 204 with an empty body and the three CORS
\* headers, and its handler neither reads nor writes the configuration.
C6_Preflight ==
    /\ (Answered(out) /\ out.method = "OPTIONS"
        /\ (StartsWith(Path(out), U_config) \/ StartsWith(Path(out), U_update)))
           => (/\ out.status = 204
               /\ out.body = <<>>
               /\ <<"Access-Control-Allow-Origin", "*">> \in out.headers
               /\ <<"Access-Control-Allow-Methods", "GET, POST, OPTIONS">> \in out.headers
               /\ <<"Access-Control-Allow-Headers", "Content-Type">> \in out.headers
               /\ out.io = {})
    /\ \A c \in Conn : conns[c].st # "idle" => conns[c].method # "OPTIONS"

C6_Witness ==
    /\ out.method = "OPTIONS" /\ out.status = 204
    /\ Path(out) = U_config \o <<"s">>

\* C7: the file the static file responder resolves and reads lies inside
\* the public directory.
C7_RootContainment ==
    \A c \in Conn : conns[c].st = "read" => InDir(PUBLIC_DIR, conns[c].path)

\* C8: after an update answered 200 the configuration file holds a value
\* deep-equal to the body, whatever it held before and however often the
\* update is repeated.
C8_FullOverwrite ==
    (IsUpdate(out) /\ out.status = 200)
        => (cfg.exists /\ SameJSON(cfg.data, BodyText(out.bid)))

\* The answer of the static file responder to a GET as three values.
Answer(o) == <<o.status, (CHOOSE h \in o.headers : h[1] = "Content-Type")[2], o.body>>

\* No readable file under the public directory is named by the path.
NoFileUnderRoot(path) ==
    LET full == PathJoin(PUBLIC_DIR, path)
    IN  ~(InDir(PUBLIC_DIR, full[1]) /\ readFile(full[1], full[2], cfg, pub)[1])

\* The path a GET asks for, index.html being the default document.
Requested(o) == IF Path(o) \in {<<"/">>, <<>>} THEN U_index ELSE Path(o)

\* C9: a GET of "/" or of the empty path is answered as a GET of
\* /index.html is, 200 text/html when index.html exists; a GET of a path
\* with no readable file under the public directory is answered 404 with a
\* plain-text body.
C9_DefaultDocument ==
    (Answered(out) /\ out.method = "GET" /\ Path(out) # U_config)
        => (/\ Path(out) \in {<<"/">>, <<>>}
                => (/\ Answer(out) = serveStatic(Append(PUBLIC_DIR, IndexHtml), FALSE, cfg, pub)
                    /\ IndexHtml \in pub
                           => (out.status = 200 /\ HasType(out, "text/html")))
            /\ NoFileUnderRoot(Requested(out))
                => (/\ out.status = 404
                    /\ HasType(out, "text/plain")
                    /\ out.body = NotFoundText))

\* C10: a GET /config returns the initial value, {} or the body of an update
\* whose 'end' event was handled, and once no request is in flight the
\* configuration file holds the body of the last update with a well-formed
\* body.
C10_Atomicity ==
    /\ IsGetConfig(out)
           => \/ Valid(cfg0) /\ SameJSON(out.body, cfg0.data)
              \/ DenotesValue(out.body, EmptyObject)
              \/ \E b \in ended : SameJSON(out.body, BodyText(b))
    /\ ((\A c \in Conn : conns[c].st = "idle") /\ lastValid # 0)
           => (cfg.exists /\ SameJSON(cfg.data, BodyText(lastValid)))

=============================================================================
